---- MODULE Spec2Model ----
(***************************************************************************)
(* Model of backend/src/main.rs: a process that opens one SQLite           *)
(* connection behind a process-wide Mutex, creates the `answers` table,    *)
(* and serves POST /submit (store_form + handle_sqlite_error) with a       *)
(* static-file fallback.                                                   *)
(*                                                                         *)
(* The SQLite driver, the axum router/extractor and the operating system   *)
(* are the environment: each driver call either succeeds or returns an     *)
(* error, chosen nondeterministically; the process can be killed and       *)
(* launched again.                                                         *)
(***************************************************************************)
EXTENDS Integers, Sequences, FiniteSets, TLC

----------------------------------------------------------------------------
(* Bounds of the model *)

\* number of HTTP requests ever sent (each request id is used once); the
\* process may be launched and ended any number of times
NumRequests == 2

Req == 1..NumRequests

\* the holder of the connection lock is a request, or main() itself, or 0
\* for nobody
Main == NumRequests + 1

\* worker threads of the runtime, one per core of the host: a single-core
\* host, or one with a thread for every request
WorkerCounts == {1, NumRequests}

----------------------------------------------------------------------------
(* Values *)

\* text values a client may put in either field
Strings == {"a", "b"}
\* the captcha answers clients send
Captchas == {"b"}

\* command-line words are sequences of characters
Prog == <<"p">>
Dir == <<"w">>
DbFile == <<"d">>
Memory == <<":", "m">>

ArgVectors ==
    { <<Prog>>,
      <<Prog, Dir>>,
      <<Prog, Dir, <<"8", "0">>, DbFile>>,
      <<Prog, Dir, <<"6", "5", "5", "3", "6">>>>,
      <<Prog, Dir, <<"x">>, DbFile>> }

NoArgs == <<>>

Digits == {"0", "1", "2", "3", "4", "5", "6", "7", "8", "9"}

DigitVal(c) ==
    CASE c = "0" -> 0 [] c = "1" -> 1 [] c = "2" -> 2 [] c = "3" -> 3
      [] c = "4" -> 4 [] c = "5" -> 5 [] c = "6" -> 6 [] c = "7" -> 7
      [] c = "8" -> 8 [] c = "9" -> 9

U16Max == 65535

RECURSIVE DecimalValue(_)
DecimalValue(s) ==
    IF s = <<>> THEN 0
    ELSE 10 * DecimalValue(SubSeq(s, 1, Len(s) - 1)) + DigitVal(s[Len(s)])

\* str::parse::<u16>: -1 stands for Err
ParseU16(s) ==
    IF s = <<>> \/ (\E i \in 1..Len(s) : s[i] \notin Digits) THEN -1
    ELSE IF DecimalValue(s) > U16Max THEN -1
    ELSE DecimalValue(s)

DefaultPort == 3000

\* main.rs 35-41
PortOf(a) == IF Len(a) < 3 THEN DefaultPort ELSE ParseU16(a[3])

\* a length test that is off by one: the path is never used
DbPathOfOffByOne(a) == IF Len(a) < 5 THEN Memory ELSE a[5]

\* lazy_static SQLITE_CONNECTION, main.rs 15-21
DbPathOf(a) == IF Len(a) < 4 THEN Memory ELSE a[4]

\* a command-line word as text
RECURSIVE Text(_)
Text(w) == IF w = <<>> THEN "" ELSE Head(w) \o Text(Tail(w))

\* how a run ended: the exit status and what was written to stderr
NoExit == [kind |-> "none", code |-> -1, diag |-> ""]

\* main.rs 31: main returns Err(usage)
ExitUsage(a) ==
    [kind |-> "usage", code |-> 1,
     diag |-> "Usage: " \o Text(a[1]) \o " <path> [port] [db]"]

\* main.rs 40: panic!("Cannot parse {} as a port number")
ExitPort(a) ==
    [kind |-> "port", code |-> 101,
     diag |-> "Cannot parse " \o Text(a[3]) \o " as a port number"]

\* main.rs 18, 20: the expect() of sqlite::open
ExitOpen(a) ==
    [kind |-> "open", code |-> 101,
     diag |-> IF Len(a) < 4 THEN "Failed to create DB in memory" ELSE "Failed open DB"]

\* main.rs 53 (the message, without the quotes around the table name)
ExitSchema ==
    [kind |-> "schema", code |-> 101, diag |-> "Failed to create the answers table"]

\* main.rs 66
ExitServe == [kind |-> "serve", code |-> 101, diag |-> "Failed to start server"]

\* ended by a signal
ExitKilled == [kind |-> "killed", code |-> 137, diag |-> ""]

----------------------------------------------------------------------------
(* The database *)

\* a database: whether the answers table exists, and its rows in rowid order
EmptyDb == [hasTable |-> FALSE, rows |-> <<>>]

\* DROP TABLE then CREATE TABLE
CreateTableFresh(db) == [hasTable |-> TRUE, rows |-> <<>>]

\* CREATE TABLE IF NOT EXISTS answers (encrypted TEXT, captcha TEXT)
CreateTableIfNotExists(db) ==
    IF db.hasTable THEN db ELSE [hasTable |-> TRUE, rows |-> <<>>]

\* the two columns exchanged
InsertRowSwapped(bound) == [encrypted |-> bound.captcha, captcha |-> bound.encrypted]

\* INSERT INTO answers(encrypted, captcha) VALUES (:encrypted, :captcha)
\* with the two named parameters bound from the payload
InsertRow(bound) == [encrypted |-> bound.encrypted, captcha |-> bound.captcha]

\* an insert that replaces the newest row instead of adding one
InsertedReplace(db, bound) ==
    [db EXCEPT !.rows = IF @ = <<>> THEN <<InsertRow(bound)>>
                        ELSE [@ EXCEPT ![Len(@)] = InsertRow(bound)]]

\* an insert that puts the new row first
InsertedFirst(db, bound) == [db EXCEPT !.rows = <<InsertRow(bound)>> \o @]

\* an insert into a table with a uniqueness constraint, conflicts ignored
InsertedUnique(db, bound) ==
    IF \E i \in 1..Len(db.rows) : db.rows[i] = InsertRow(bound)
    THEN db
    ELSE [db EXCEPT !.rows = Append(@, InsertRow(bound))]

\* an insert that runs twice
InsertedTwice(db, bound) ==
    [db EXCEPT !.rows = Append(Append(@, InsertRow(bound)), InsertRow(bound))]

\* statement.next(): the insert runs, the new row gets the next rowid
Inserted(db, bound) == [db EXCEPT !.rows = Append(@, InsertRow(bound))]

\* statement.bind(&[(":encrypted", payload.encrypted), (":captcha", payload.captcha)])
BindParams(p) == [encrypted |-> p.encrypted, captcha |-> p.captcha]

\* main.rs 93-96: let insert_query = "..." (the white space around the
\* clauses is left out)
insert_query == "INSERT INTO answers(encrypted, captcha) VALUES (:encrypted, :captcha)"

\* a sqlite::Statement: the text it was prepared from and the values bound to
\* its named parameters
Statement(sql, params) == [sql |-> sql, params |-> params]

SqliteError(code, message) == [code |-> code, message |-> message]

ErrNoTable == SqliteError(1, "no such table: answers")
ErrPrepare == SqliteError(10, "disk I/O error")
ErrBind == SqliteError(7, "out of memory")
ErrStep == SqliteError(13, "database or disk is full")

\* format!("{}", e) for a sqlite::Error with code and message
ErrorDisplay(e) == e.message \o " (code " \o ToString(e.code) \o ")"

----------------------------------------------------------------------------
(* HTTP *)

\* request bodies: a JSON object (a function from field names to text) or
\* text that is not JSON
JsonBodies ==
    { [kind |-> "json", obj |-> [encrypted |-> e, captcha |-> c]] :
        e \in Strings, c \in Captchas }
    \cup { [kind |-> "json", obj |-> [encrypted |-> "a"]] }
    \cup { [kind |-> "garbage"] }

NoBody == [kind |-> "none"]

Files == {"/index.html"}

HttpRequests ==
    { [method |-> "POST", path |-> "/submit", body |-> b] : b \in JsonBodies }
    \cup { [method |-> "GET", path |-> p, body |-> NoBody] :
             p \in {"/submit", "/index.html", "/missing"} }
    \cup { [method |-> "POST", path |-> "/index.html", body |-> NoBody] }

NoRequest == [method |-> "-", path |-> "-", body |-> NoBody]
NoPayload == [none |-> TRUE]
NoStatement == Statement("", NoPayload)
NoResult == [kind |-> "none"]
NoResponse == [status |-> 0, body |-> "-"]

\* an extractor that fills a missing field with the empty text
DecodeInputDefault(b) ==
    IF b.kind # "json" THEN [ok |-> FALSE, status |-> 400]
    ELSE [ok |-> TRUE,
          input |-> [encrypted |-> IF "encrypted" \in DOMAIN b.obj
                                   THEN b.obj.encrypted ELSE "",
                     captcha |-> IF "captcha" \in DOMAIN b.obj
                                 THEN b.obj.captcha ELSE ""]]

\* Json<Input> extractor: both fields required
DecodeInput(b) ==
    IF b.kind # "json" THEN [ok |-> FALSE, status |-> 400]
    ELSE IF {"encrypted", "captcha"} \subseteq DOMAIN b.obj
         THEN [ok |-> TRUE,
               input |-> [encrypted |-> b.obj.encrypted, captcha |-> b.obj.captcha]]
         ELSE [ok |-> FALSE, status |-> 422]

\* a router whose fallback also takes the other methods of a routed path
RouteFallThrough(q) ==
    IF q.path = "/submit" /\ q.method = "POST" THEN "decode" ELSE "static"

\* Router::new().route("/submit", post(..)).fallback_service(ServeDir): the
\* path is matched first, the POST-only method router answers the other
\* methods of /submit itself, the fallback takes the unmatched paths
Route(q) ==
    IF q.path = "/submit"
    THEN IF q.method = "POST" THEN "decode" ELSE "method_not_allowed"
    ELSE "static"

\* ServeDir::new(serve_path): files are read with GET (or HEAD) only
ServeDir(q) ==
    IF q.method # "GET" THEN [status |-> 405, body |-> ""]
    ELSE IF q.path \in Files THEN [status |-> 200, body |-> q.path]
    ELSE [status |-> 404, body |-> ""]

StatusCreated == 201
StatusInternalServerError == 500

\* Result::Ok((StatusCode::CREATED, "Saved!"))
OkResult == [kind |-> "ok", code |-> StatusCreated, msg |-> "Saved!"]
ErrResult(e) == [kind |-> "err", err |-> e]

\* a mapping that hides the error text
HandleSqliteErrorOpaque(value) ==
    IF value.kind = "ok"
    THEN [status |-> value.code, body |-> value.msg]
    ELSE [status |-> StatusInternalServerError, body |-> "Internal Server Error"]

\* a mapping that answers 201 whatever store_form returned
HandleSqliteErrorAlwaysCreated(value) ==
    IF value.kind = "ok"
    THEN [status |-> value.code, body |-> value.msg]
    ELSE [status |-> StatusCreated, body |-> ErrorDisplay(value.err)]

\* handle_sqlite_error
HandleSqliteError(value) ==
    IF value.kind = "ok"
    THEN [status |-> value.code, body |-> value.msg]
    ELSE [status |-> StatusInternalServerError, body |-> ErrorDisplay(value.err)]

----------------------------------------------------------------------------
VARIABLES
    phase,      \* where main() is: stopped, open, lock, schema, bind, serving
    exit,       \* how the last run ended: NoExit while a process runs
    args,       \* std::env::args() of the current run
    workers,    \* number of worker threads of the runtime of the current run
    disk,       \* the database file
    mem,        \* the in-memory database of the current run
    holder,     \* owner of the SQLITE_CONNECTION mutex: 0 is free
    pc,         \* per request: position in the handler
    req,        \* per request: the HTTP request
    payload,    \* per request: the decoded Input
    stmt,       \* per request: the prepared statement, its text and bound parameters
    result,     \* per request: the value store_form returned
    resp,       \* per request: the HTTP response sent
    fault,      \* per request: the driver call the environment made fail
    rowid,      \* per request: rowid of the row it inserted, 0 if none
    baseLen     \* number of rows the table had when this run began to serve

vars == <<phase, exit, args, workers, disk, mem, holder, pc, req, payload, stmt,
          result, resp, fault, rowid, baseLen>>

procVars == <<phase, exit, args, workers, baseLen>>
reqVars == <<pc, req, payload, stmt, result, resp, fault, rowid>>

UsesMemory == DbPathOf(args) = Memory

\* the database behind SQLITE_CONNECTION
Db == IF UsesMemory THEN mem ELSE disk

Init ==
    /\ phase = "stopped"
    /\ exit = NoExit
    /\ args = NoArgs
    /\ workers = 0
    /\ disk = EmptyDb
    /\ mem = EmptyDb
    /\ holder = 0
    /\ pc = [r \in Req |-> "new"]
    /\ req = [r \in Req |-> NoRequest]
    /\ payload = [r \in Req |-> NoPayload]
    /\ stmt = [r \in Req |-> NoStatement]
    /\ result = [r \in Req |-> NoResult]
    /\ resp = [r \in Req |-> NoResponse]
    /\ fault = [r \in Req |-> "none"]
    /\ rowid = [r \in Req |-> 0]
    /\ baseLen = 0

----------------------------------------------------------------------------
(* The process: main() *)

SetDb(newdb) ==
    IF UsesMemory
    THEN mem' = newdb /\ disk' = disk
    ELSE disk' = newdb /\ mem' = mem

\* a request some task of the process has received
Live(r) == pc[r] \notin {"new", "gone"}

\* the process ends: its tasks with their requests and responses, its mutex
\* and its in-memory database go
Terminate(how) ==
    /\ phase' = "stopped"
    /\ exit' = how
    /\ holder' = 0
    /\ mem' = EmptyDb
    /\ args' = NoArgs
    /\ workers' = 0
    /\ baseLen' = 0
    /\ pc' = [r \in Req |-> IF Live(r) THEN "gone" ELSE pc[r]]
    /\ req' = [r \in Req |-> NoRequest]
    /\ payload' = [r \in Req |-> NoPayload]
    /\ stmt' = [r \in Req |-> NoStatement]
    /\ result' = [r \in Req |-> NoResult]
    /\ resp' = [r \in Req |-> NoResponse]
    /\ fault' = [r \in Req |-> "none"]
    /\ rowid' = [r \in Req |-> 0]

\* a main() that falls back to the default port when the port does not parse
LaunchLenient(a, w) ==
    /\ phase = "stopped"
    /\ IF Len(a) < 2
       THEN /\ exit' = ExitUsage(a)
            /\ UNCHANGED <<phase, args, workers>>
       ELSE /\ phase' = "open"
            /\ exit' = NoExit
            /\ args' = a
            /\ workers' = w
    /\ UNCHANGED <<disk, mem, holder, baseLen, reqVars>>

\* main.rs 25-41: #[tokio::main] starts the runtime with one worker thread
\* per core; then argument count and port
Launch(a, w) ==
    /\ phase = "stopped"
    /\ IF Len(a) < 2
       THEN /\ exit' = ExitUsage(a)
            /\ UNCHANGED <<phase, args, workers>>
       ELSE IF PortOf(a) = -1
       THEN /\ exit' = ExitPort(a)
            /\ UNCHANGED <<phase, args, workers>>
       ELSE /\ phase' = "open"
            /\ exit' = NoExit
            /\ args' = a
            /\ workers' = w
    /\ UNCHANGED <<disk, mem, holder, baseLen, reqVars>>

\* lazy_static SQLITE_CONNECTION: sqlite::open(..).expect(..)
OpenDb ==
    /\ phase = "open"
    /\ \E ok \in BOOLEAN :
         IF ok
         THEN /\ phase' = "lock"
              /\ UNCHANGED <<exit, args, workers, holder, mem, reqVars>>
              /\ baseLen' = baseLen
         ELSE Terminate(ExitOpen(args))
    /\ UNCHANGED disk

\* main.rs 49-51: SQLITE_CONNECTION.lock() in main
LockSchema ==
    /\ phase = "lock"
    /\ holder = 0
    /\ phase' = "schema"
    /\ holder' = Main
    /\ UNCHANGED <<exit, args, workers, baseLen, disk, mem, reqVars>>

\* a startup that goes on without creating the table
InitSchemaSkipped ==
    /\ phase = "schema"
    /\ holder = Main
    /\ \E ok \in BOOLEAN :
         IF ok
         THEN /\ phase' = "bind"
              /\ holder' = 0
              /\ UNCHANGED <<exit, args, workers, baseLen, disk, mem, reqVars>>
         ELSE /\ Terminate(ExitSchema)
              /\ disk' = disk

\* main.rs 43-53: execute the CREATE TABLE under the lock; the guard is a
\* temporary, dropped at the end of the statement
InitSchema ==
    /\ phase = "schema"
    /\ holder = Main
    /\ \E ok \in BOOLEAN :
         IF ok
         THEN /\ phase' = "bind"
              /\ SetDb(CreateTableIfNotExists(Db))
              /\ holder' = 0
              /\ UNCHANGED <<exit, args, workers, baseLen, reqVars>>
         ELSE /\ Terminate(ExitSchema)
              /\ disk' = disk

\* main.rs 56-66: bind the address and serve
Serve ==
    /\ phase = "bind"
    /\ \E ok \in BOOLEAN :
         IF ok
         THEN /\ phase' = "serving"
              /\ UNCHANGED <<exit, args, workers, holder, mem, reqVars>>
              /\ baseLen' = Len(Db.rows)
         ELSE Terminate(ExitServe)
    /\ UNCHANGED disk

\* the operating system ends the process
Kill ==
    /\ phase # "stopped"
    /\ Terminate(ExitKilled)
    /\ UNCHANGED disk

----------------------------------------------------------------------------
(* One request *)

\* the task of the request is being polled: from the end of extraction to the
\* response nothing in the handler awaits (lock() and the driver calls block
\* the thread), so the task keeps its worker thread all the way
InPoll(r) == pc[r] \in {"lock", "prepare", "bind", "step", "return", "respond"}

\* some worker thread of the runtime is not running a handler
FreeWorker == Cardinality({r \in Req : InPoll(r)}) < workers

\* a client sends a request; the router dispatches it (main.rs 71-78)
Arrive(r, q) ==
    /\ phase = "serving"
    /\ pc[r] = "new"
    /\ \A s \in Req : s < r => pc[s] # "new"
    /\ req' = [req EXCEPT ![r] = q]
    /\ pc' = [pc EXCEPT ![r] = Route(q)]
    /\ UNCHANGED <<procVars, disk, mem, holder, payload, stmt, result, resp, fault, rowid>>

\* POST-only route asked with another method
MethodNotAllowed(r) ==
    /\ pc[r] = "method_not_allowed"
    /\ FreeWorker
    /\ resp' = [resp EXCEPT ![r] = [status |-> 405, body |-> ""]]
    /\ pc' = [pc EXCEPT ![r] = "done"]
    /\ UNCHANGED <<procVars, disk, mem, holder, req, payload, stmt, result, fault, rowid>>

\* a file service that takes the connection lock to serve
StaticServeLocked(r) ==
    /\ pc[r] = "static"
    /\ FreeWorker
    /\ holder = 0
    /\ resp' = [resp EXCEPT ![r] = ServeDir(req[r])]
    /\ pc' = [pc EXCEPT ![r] = "done"]
    /\ UNCHANGED <<procVars, disk, mem, holder, req, payload, stmt, result, fault, rowid>>

\* fallback_service(ServeDir::new(serve_path))
StaticServe(r) ==
    /\ pc[r] = "static"
    /\ FreeWorker
    /\ resp' = [resp EXCEPT ![r] = ServeDir(req[r])]
    /\ pc' = [pc EXCEPT ![r] = "done"]
    /\ UNCHANGED <<procVars, disk, mem, holder, req, payload, stmt, result, fault, rowid>>

\* the Json<Input> extractor runs before the handler closure
Decode(r) ==
    /\ pc[r] = "decode"
    /\ FreeWorker
    /\ LET d == DecodeInput(req[r].body) IN
         IF d.ok
         THEN /\ payload' = [payload EXCEPT ![r] = d.input]
              /\ pc' = [pc EXCEPT ![r] = "lock"]
              /\ resp' = resp
         ELSE /\ resp' = [resp EXCEPT ![r] = [status |-> d.status, body |-> ""]]
              /\ pc' = [pc EXCEPT ![r] = "done"]
              /\ payload' = payload
    /\ UNCHANGED <<procVars, disk, mem, holder, req, stmt, result, fault, rowid>>

\* a lock() that does not wait for the holder
AcquireNoWait(r) ==
    /\ pc[r] = "lock"
    /\ holder' = r
    /\ pc' = [pc EXCEPT ![r] = "prepare"]
    /\ UNCHANGED <<procVars, disk, mem, req, payload, stmt, result, resp, fault, rowid>>

\* store_form, main.rs 97-99: SQLITE_CONNECTION.lock()
Acquire(r) ==
    /\ pc[r] = "lock"
    /\ holder = 0
    /\ holder' = r
    /\ pc' = [pc EXCEPT ![r] = "prepare"]
    /\ UNCHANGED <<procVars, disk, mem, req, payload, stmt, result, resp, fault, rowid>>

\* an error path that starts the insert again
FailRetry(r, e, where) ==
    /\ result' = [result EXCEPT ![r] = ErrResult(e)]
    /\ fault' = [fault EXCEPT ![r] = where]
    /\ pc' = [pc EXCEPT ![r] = "prepare"]

\* a driver call returned Err: `?` leaves store_form with it
Fail(r, e, where) ==
    /\ result' = [result EXCEPT ![r] = ErrResult(e)]
    /\ fault' = [fault EXCEPT ![r] = where]
    /\ pc' = [pc EXCEPT ![r] = "return"]

\* a prepare whose text is built from the submitted values
PrepareInline(r) ==
    /\ pc[r] = "prepare"
    /\ IF ~Db.hasTable
       THEN Fail(r, ErrNoTable, "none") /\ stmt' = stmt
       ELSE \E ok \in BOOLEAN :
              IF ok
              THEN /\ stmt' = [stmt EXCEPT ![r] = Statement(
                              "INSERT INTO answers(encrypted, captcha) VALUES ('"
                                  \o payload[r].encrypted \o "', '"
                                  \o payload[r].captcha \o "')", NoPayload)]
                   /\ pc' = [pc EXCEPT ![r] = "bind"]
                   /\ UNCHANGED <<result, fault>>
              ELSE Fail(r, ErrPrepare, "prepare") /\ stmt' = stmt
    /\ UNCHANGED <<procVars, disk, mem, holder, req, payload, resp, rowid>>

\* main.rs 100: connection.prepare(insert_query)?
Prepare(r) ==
    /\ pc[r] = "prepare"
    /\ IF ~Db.hasTable
       THEN Fail(r, ErrNoTable, "none") /\ stmt' = stmt
       ELSE \E ok \in BOOLEAN :
              IF ok
              THEN /\ stmt' = [stmt EXCEPT ![r] = Statement(insert_query, NoPayload)]
                   /\ pc' = [pc EXCEPT ![r] = "bind"]
                   /\ UNCHANGED <<result, fault>>
              ELSE Fail(r, ErrPrepare, "prepare") /\ stmt' = stmt
    /\ UNCHANGED <<procVars, disk, mem, holder, req, payload, resp, rowid>>

\* main.rs 101-104: statement.bind(..)?
Bind(r) ==
    /\ pc[r] = "bind"
    /\ \E ok \in BOOLEAN :
         IF ok
         THEN /\ stmt' = [stmt EXCEPT ![r].params = BindParams(payload[r])]
              /\ pc' = [pc EXCEPT ![r] = "step"]
              /\ UNCHANGED <<result, fault>>
         ELSE /\ Fail(r, ErrBind, "bind")
              /\ stmt' = stmt
    /\ UNCHANGED <<procVars, disk, mem, holder, req, payload, resp, rowid>>

\* main.rs 105: while statement.next()? != State::Done {}
Step(r) ==
    /\ pc[r] = "step"
    /\ \E ok \in BOOLEAN :
         IF ok
         THEN /\ SetDb(Inserted(Db, stmt[r].params))
              /\ rowid' = [rowid EXCEPT ![r] = Len(Inserted(Db, stmt[r].params).rows)]
              /\ pc' = [pc EXCEPT ![r] = "return"]
              /\ UNCHANGED <<result, fault>>
         ELSE /\ Fail(r, ErrStep, "step")
              /\ UNCHANGED <<disk, mem, rowid>>
    /\ UNCHANGED <<procVars, holder, req, payload, stmt, resp>>

\* a return that leaks the MutexGuard
ReturnKeepLock(r) ==
    /\ pc[r] = "return"
    /\ result' = [result EXCEPT ![r] = IF @ = NoResult THEN OkResult ELSE @]
    /\ pc' = [pc EXCEPT ![r] = "respond"]
    /\ UNCHANGED <<procVars, disk, mem, holder, req, payload, stmt, resp, fault, rowid>>

\* a return that drops the MutexGuard only at the end of the function body,
\* not on the early return of `?`
ReturnKeepLockOnErr(r) ==
    /\ pc[r] = "return"
    /\ result' = [result EXCEPT ![r] = IF @ = NoResult THEN OkResult ELSE @]
    /\ holder' = IF holder = r /\ result[r] = NoResult THEN 0 ELSE holder
    /\ pc' = [pc EXCEPT ![r] = "respond"]
    /\ UNCHANGED <<procVars, disk, mem, req, payload, stmt, resp, fault, rowid>>

\* main.rs 107-108: store_form returns; statement and MutexGuard are dropped
Return(r) ==
    /\ pc[r] = "return"
    /\ result' = [result EXCEPT ![r] = IF @ = NoResult THEN OkResult ELSE @]
    /\ holder' = IF holder = r THEN 0 ELSE holder
    /\ pc' = [pc EXCEPT ![r] = "respond"]
    /\ UNCHANGED <<procVars, disk, mem, req, payload, stmt, resp, fault, rowid>>

\* main.rs 75: handle_sqlite_error(store_form(payload).await)
Respond(r) ==
    /\ pc[r] = "respond"
    /\ resp' = [resp EXCEPT ![r] = HandleSqliteError(result[r])]
    /\ pc' = [pc EXCEPT ![r] = "done"]
    /\ UNCHANGED <<procVars, disk, mem, holder, req, payload, stmt, result, fault, rowid>>

----------------------------------------------------------------------------
Next ==
    \/ \E a \in ArgVectors, w \in WorkerCounts : Launch(a, w)
    \/ OpenDb
    \/ LockSchema
    \/ InitSchema
    \/ Serve
    \/ Kill
    \/ \E r \in Req, q \in HttpRequests : Arrive(r, q)
    \/ \E r \in Req : MethodNotAllowed(r)
    \/ \E r \in Req : StaticServe(r)
    \/ \E r \in Req : Decode(r)
    \/ \E r \in Req : Acquire(r)
    \/ \E r \in Req : Prepare(r)
    \/ \E r \in Req : Bind(r)
    \/ \E r \in Req : Step(r)
    \/ \E r \in Req : Return(r)
    \/ \E r \in Req : Respond(r)

Spec == Init /\ [][Next]_vars

\* the steps of the task that handles a submission
Handle(r) ==
    \/ Decode(r)
    \/ Acquire(r)
    \/ Prepare(r)
    \/ Bind(r)
    \/ Step(r)
    \/ Return(r)
    \/ Respond(r)

\* every task that can run is run: the runtime polls ready tasks and a thread
\* blocked in lock() is woken when the mutex is free
Fairness == \A r \in Req : WF_vars(Handle(r))

FairSpec == Spec /\ Fairness

----------------------------------------------------------------------------
(* Vocabulary of the properties *)

\* a POST to /submit whose body decodes to an Input
IsValidSubmit(q) ==
    /\ q.method = "POST"
    /\ q.path = "/submit"
    /\ q.body.kind = "json"
    /\ {"encrypted", "captcha"} \subseteq DOMAIN q.body.obj

\* a POST to /submit whose body does not decode
IsMalformedSubmit(q) ==
    /\ q.method = "POST"
    /\ q.path = "/submit"
    /\ ~IsValidSubmit(q)

\* the row the client asked to store
SentRow(q) == [encrypted |-> q.body.obj.encrypted, captcha |-> q.body.obj.captcha]

\* the request was received by the process that is serving now
InThisRun(r) == phase = "serving" /\ Live(r)

\* between lock acquisition and the return of store_form
Executing(r) == pc[r] \in {"prepare", "bind", "step", "return"}

\* has entered store_form and has not left it
InStore(r) == pc[r] = "lock" \/ Executing(r)

IsPrefix(s, t) == Len(s) <= Len(t) /\ SubSeq(t, 1, Len(s)) = s

Saved == [status |-> 201, body |-> "Saved!"]

\* the valid submissions received by the serving process
Submits == {r \in Req : InThisRun(r) /\ IsValidSubmit(req[r])}

\* the rows added since the process began to serve
NewRows == SubSeq(Db.rows, baseLen + 1, Len(Db.rows))

----------------------------------------------------------------------------
(* C1: every valid (encrypted, captcha) pair posted to /submit, when no     *)
(* driver call fails, is answered 201 "Saved!" and its row, with exactly    *)
(* the two submitted values in their columns, is in the answers table.      *)
C1_SubmitStoresRow ==
    \A r \in Req :
        (pc[r] = "done" /\ IsValidSubmit(req[r]) /\ fault[r] = "none") =>
            /\ resp[r] = Saved
            /\ rowid[r] \in (baseLen + 1)..Len(Db.rows)
            /\ Db.rows[rowid[r]] = SentRow(req[r])

C1_Witness ==
    \E r \in Req :
        /\ pc[r] = "done" /\ IsValidSubmit(req[r]) /\ fault[r] = "none"
        /\ InThisRun(r)
        /\ req[r].body.obj.encrypted # req[r].body.obj.captcha
        /\ resp[r].status = 201
        /\ Db.rows[rowid[r]].encrypted = "a"

(* C2: when all the valid submissions a process received carry distinct     *)
(* payloads and have completed with no driver failure, each was answered    *)
(* 201 and the table holds exactly one more row per submission than when    *)
(* the process began to serve: the new rows are exactly the payloads.       *)
C2_ConcurrentSubmits ==
    ( /\ phase = "serving"
      /\ \A r \in Submits : pc[r] = "done" /\ fault[r] = "none"
      /\ \A r, s \in Submits : r # s => SentRow(req[r]) # SentRow(req[s]) )
    =>
    ( /\ \A r \in Submits : resp[r] = Saved
      /\ Len(Db.rows) = baseLen + Cardinality(Submits)
      /\ {NewRows[i] : i \in 1..Len(NewRows)} = {SentRow(req[r]) : r \in Submits} )

\* two submissions with distinct payloads, the later arrival stored first
C2_Witness ==
    /\ phase = "serving"
    /\ Cardinality(Submits) >= 2
    /\ \A r \in Submits : pc[r] = "done" /\ fault[r] = "none"
    /\ \E r, s \in Submits :
         /\ r < s
         /\ SentRow(req[r]) # SentRow(req[s])
         /\ rowid[s] < rowid[r]

(* C3: at most one request is between lock acquisition and the end of       *)
(* store_form, it is the holder of the mutex, and every other request       *)
(* inside store_form is at lock() and cannot acquire while it is held.      *)
C3_MutualExclusion ==
    /\ Cardinality({r \in Req : Executing(r)}) <= 1
    /\ \A r \in Req : Executing(r) <=> holder = r
    /\ \A r \in Req :
         (InStore(r) /\ holder # r) =>
             /\ pc[r] = "lock"
             /\ holder # 0 => ~ENABLED Acquire(r)

C3_Witness ==
    \E r, s \in Req : pc[r] = "step" /\ holder = r /\ pc[s] = "lock"

(* C4: a submission that is inside store_form, waiting at lock() or past   *)
(* it, eventually has its response (which it reaches only through the lock  *)
(* and the insert) unless the process is ended first; and while some        *)
(* request is inside store_form some request inside it can take a step.     *)
C4_NoIndefiniteSuspension ==
    /\ \A r \in Req : InStore(r) ~> (pc[r] = "done" \/ pc[r] = "gone")
    /\ []((\E r \in Req : InStore(r)) =>
            \E r \in Req : ENABLED (Acquire(r) \/ Prepare(r) \/ Bind(r)
                                     \/ Step(r) \/ Return(r)))

\* a request waits at lock() while the holder, its insert done, is about to
\* leave store_form
C4_Witness ==
    \E r, s \in Req :
        /\ pc[r] = "lock"
        /\ holder = s
        /\ pc[s] = "return"
        /\ rowid[s] > 0

(* C5: for a request whose body decoded, the response is 201 "Saved!"       *)
(* exactly when no driver call failed, and otherwise 500 with the text of   *)
(* the error of the call that failed; no other status is produced.          *)
C5_ErrorMapping ==
    \A r \in Req :
        (pc[r] = "done" /\ IsValidSubmit(req[r])) =>
            /\ resp[r].status \in {201, 500}
            /\ fault[r] = "none" <=> resp[r] = Saved
            /\ fault[r] = "prepare" =>
                 resp[r] = [status |-> 500, body |-> "disk I/O error (code 10)"]
            /\ fault[r] = "bind" =>
                 resp[r] = [status |-> 500, body |-> "out of memory (code 7)"]
            /\ fault[r] = "step" =>
                 resp[r] = [status |-> 500, body |-> "database or disk is full (code 13)"]

C5_Witness ==
    \E r, s \in Req :
        /\ pc[r] = "done" /\ fault[r] = "step" /\ resp[r].status = 500
        /\ pc[s] = "done" /\ fault[s] = "prepare" /\ resp[s].status = 500

(* C6: the step in which a driver call of one request fails leaves both     *)
(* databases, the process and every other request as they were; a request   *)
(* whose store failed never inserts afterwards and only goes on to its      *)
(* response.                                                                *)
C6_FailureIsLocal ==
    [][\A r \in Req :
         /\ (result[r] = NoResult /\ result'[r].kind = "err") =>
              /\ disk' = disk /\ mem' = mem
              /\ phase' = "serving" /\ exit' = exit
              /\ rowid[r] = 0
              /\ \A s \in Req \ {r} :
                   pc'[s] = pc[s] /\ result'[s] = result[s] /\ resp'[s] = resp[s]
         /\ result[r].kind = "err" =>
              /\ rowid'[r] = 0
              /\ pc'[r] \in {"return", "respond", "done", "gone"}
              /\ pc'[r] = "done" => resp'[r].status = 500]_vars

\* after one request failed, a later one was stored
C6_Witness ==
    \E r, s \in Req :
        /\ r < s
        /\ InThisRun(r) /\ InThisRun(s)
        /\ pc[r] = "done" /\ resp[r].status = 500
        /\ pc[s] = "done" /\ resp[s] = Saved
        /\ Db.rows = <<SentRow(req[s])>>

(* C7: a POST to /submit whose body does not decode never enters            *)
(* store_form: it never holds the lock, has no result and no row, and its   *)
(* response is a client error.                                              *)
C7_MalformedRejected ==
    \A r \in Req :
        IsMalformedSubmit(req[r]) =>
            /\ pc[r] \in {"decode", "done"}
            /\ holder # r
            /\ payload[r] = NoPayload
            /\ result[r] = NoResult
            /\ rowid[r] = 0
            /\ pc[r] = "done" => (resp[r].status >= 400 /\ resp[r].status <= 499)

\* a body without captcha was refused while another request was stored
C7_Witness ==
    \E r, s \in Req :
        /\ pc[r] = "done"
        /\ req[r].body.kind = "json" /\ IsMalformedSubmit(req[r])
        /\ resp[r].status = 422
        /\ pc[s] = "done" /\ resp[s] = Saved
        /\ InThisRun(r) /\ InThisRun(s)
        /\ Len(Db.rows) = baseLen + 1

(* C8: in every step the rows of the database file, and within a process    *)
(* run the rows of the in-memory database, before the step are a prefix of  *)
(* the rows after it.                                                       *)
C8_RowsAreAppendOnly ==
    [][/\ IsPrefix(disk.rows, disk'.rows)
       /\ phase' # "stopped" => IsPrefix(mem.rows, mem'.rows)]_vars

C8_Witness ==
    /\ phase = "serving"
    /\ Len(Db.rows) >= 2
    /\ Db.rows[1] # Db.rows[2]

(* C9: two completed submissions with identical values, neither hit by a    *)
(* driver failure, are both answered 201 and occupy two different rows of   *)
(* the table, both holding those values.                                    *)
C9_DuplicatesKept ==
    \A r, s \in Submits :
        ( /\ r # s
          /\ SentRow(req[r]) = SentRow(req[s])
          /\ pc[r] = "done" /\ fault[r] = "none"
          /\ pc[s] = "done" /\ fault[s] = "none" )
        =>
        ( /\ resp[r] = Saved /\ resp[s] = Saved
          /\ rowid[r] # rowid[s]
          /\ rowid[r] \in (baseLen + 1)..Len(Db.rows)
          /\ rowid[s] \in (baseLen + 1)..Len(Db.rows)
          /\ Db.rows[rowid[r]] = SentRow(req[r])
          /\ Db.rows[rowid[s]] = SentRow(req[s]) )

\* identical submissions, the later arrival stored first
C9_Witness ==
    \E r, s \in Submits :
        /\ r < s
        /\ SentRow(req[r]) = SentRow(req[s])
        /\ pc[r] = "done" /\ pc[s] = "done"
        /\ 0 < rowid[s] /\ rowid[s] < rowid[r]
        /\ Len(NewRows) = 2

(* C10: no step of startup or shutdown changes the rows of the database     *)
(* file or removes its table: the file changes only by creating the absent  *)
(* table, empty, during schema initialization, or by an insert of a         *)
(* serving process.                                                         *)
C10_RestartPreservesRows ==
    [][disk' # disk =>
         \/ /\ phase = "schema"
            /\ ~disk.hasTable
            /\ disk' = [hasTable |-> TRUE, rows |-> <<>>]
         \/ /\ phase = "serving"
            /\ disk.hasTable /\ disk'.hasTable
            /\ Len(disk'.rows) = Len(disk.rows) + 1
            /\ IsPrefix(disk.rows, disk'.rows)]_vars

\* a later run initialized the schema of a file that already held rows
C10_Witness ==
    /\ phase = "bind"
    /\ ~UsesMemory
    /\ Len(disk.rows) >= 1

(* C11: a process launched with a db-path argument stores each row in the  *)
(* database file and leaves no in-memory database; one launched without it  *)
(* stores each row in its in-memory database and never touches the file;    *)
(* the in-memory database is gone when the process has ended, and a process *)
(* launched without db-path begins to serve with an empty answers table.    *)
C11_DatabaseChoice ==
    [][/\ \A r \in Req :
            (rowid[r] = 0 /\ rowid'[r] > 0) =>
                IF Len(args) >= 4
                THEN /\ disk'.rows = Append(disk.rows, SentRow(req[r]))
                     /\ mem' = mem
                ELSE /\ mem'.rows = Append(mem.rows, SentRow(req[r]))
                     /\ disk' = disk
       /\ (phase # "stopped" /\ Len(args) < 4) => disk' = disk
       /\ (phase # "stopped" /\ Len(args) >= 4) => mem' = EmptyDb
       /\ phase' = "stopped" => mem' = EmptyDb
       /\ (phase' = "serving" /\ Len(args') < 4 /\ phase # "serving") =>
              mem' = [hasTable |-> TRUE, rows |-> <<>>]]_vars

\* a process without db-path holds a row in memory while the file keeps the
\* row an earlier process stored in it
C11_Witness ==
    /\ phase = "serving"
    /\ Len(args) < 4
    /\ Len(mem.rows) = 1
    /\ Len(disk.rows) = 1
    /\ \E r \in Req : rowid[r] = 1

\* the request is a POST to /submit
IsSubmit(q) == q.method = "POST" /\ q.path = "/submit"

(* C12: a POST to /submit goes to the submission handler; a request for    *)
(* any other path, whatever its method, is answered by static-file serving; *)
(* a request for /submit with another method is answered 405 by the route   *)
(* itself and reaches neither the handler nor static-file serving.          *)
C12_Routing ==
    \A r \in Req :
        /\ (Live(r) /\ IsSubmit(req[r])) =>
              pc[r] \notin {"static", "method_not_allowed"}
        /\ (Live(r) /\ req[r].path # "/submit") =>
              /\ pc[r] \in {"static", "done"}
              /\ payload[r] = NoPayload /\ result[r] = NoResult
              /\ pc[r] = "done" =>
                   resp[r] = IF req[r].method # "GET" THEN [status |-> 405, body |-> ""]
                             ELSE IF req[r].path = "/index.html"
                                  THEN [status |-> 200, body |-> "/index.html"]
                                  ELSE [status |-> 404, body |-> ""]
        /\ (Live(r) /\ req[r].path = "/submit" /\ req[r].method # "POST") =>
              /\ pc[r] \in {"method_not_allowed", "done"}
              /\ payload[r] = NoPayload /\ result[r] = NoResult
              /\ pc[r] = "done" => resp[r] = [status |-> 405, body |-> ""]

\* a GET of /submit was answered 405 and a GET of a file was served
C12_Witness ==
    \E r, s \in Req :
        /\ pc[r] = "done"
        /\ req[r].method = "GET" /\ req[r].path = "/submit"
        /\ resp[r].status = 405
        /\ pc[s] = "done"
        /\ req[s].path = "/index.html" /\ resp[s].status = 200

\* the claim as stated: every request that is not a POST to /submit is
\* handed to static-file serving
C12_AsStated ==
    \A r \in Req :
        (Live(r) /\ ~IsSubmit(req[r])) =>
            /\ pc[r] \in {"static", "done"}
            /\ pc[r] = "done" => resp[r] = ServeDir(req[r])

\* the ways startup fails
StartupFailures == {"usage", "port", "open", "schema"}

(* C13: no process runs with a missing static-dir or a port that is not a  *)
(* 16-bit unsigned integer, and none binds or serves without the answers    *)
(* table; the step in which startup fails ends the process before it has    *)
(* bound or received a request, with a non-zero exit status and a           *)
(* diagnostic, and leaves the database file as it was.                      *)
C13_StartupErrorsFatal ==
    [][/\ phase' # "stopped" =>
            /\ Len(args') >= 2
            /\ Len(args') >= 3 => ParseU16(args'[3]) \in 0..65535
       /\ phase' \in {"bind", "serving"} => Db'.hasTable
       /\ (exit' # exit /\ exit'.kind \in StartupFailures) =>
            /\ phase \notin {"bind", "serving"}
            /\ phase' = "stopped"
            /\ exit'.code > 0
            /\ exit'.diag # ""
            /\ disk' = disk
            /\ \A r \in Req : ~Live(r) /\ pc'[r] = pc[r]
       /\ (phase = "open" /\ phase' = "stopped") => exit'.kind \in {"open", "killed"}
       /\ (phase = "schema" /\ phase' = "stopped") => exit'.kind \in {"schema", "killed"}
       /\ (phase = "stopped" /\ phase' = "stopped" /\ exit' # exit) =>
            exit'.kind \in {"usage", "port"}]_vars

\* the table could not be created in a file that holds rows: the process
\* ended with a panic
C13_Witness ==
    /\ phase = "stopped"
    /\ exit = ExitSchema
    /\ Len(disk.rows) >= 1

\* the other database of the two
OtherDbUnchanged == IF UsesMemory THEN disk' = disk ELSE mem' = mem

(* C14: the step in which the insert of a store call succeeds appends      *)
(* exactly the submitted row to the table and changes nothing else: not the *)
(* rows already there, the schema, the other database, the process, the     *)
(* lock or any other request; no other step of the call changes a           *)
(* database, and when the call returns Ok the lock is free.                 *)
C14_StoreFrame ==
    [][\A r \in Req :
         /\ (pc[r] = "step" /\ pc'[r] = "return" /\ result'[r] = NoResult) =>
              /\ Db'.rows = Append(Db.rows, SentRow(req[r]))
              /\ Db'.hasTable = Db.hasTable
              /\ OtherDbUnchanged
              /\ UNCHANGED <<procVars, holder>>
              /\ \A s \in Req \ {r} :
                   /\ pc'[s] = pc[s] /\ payload'[s] = payload[s]
                   /\ result'[s] = result[s] /\ resp'[s] = resp[s]
         /\ (pc[r] \in {"lock", "prepare", "bind", "return", "respond"}
             /\ pc'[r] # pc[r] /\ phase' = "serving") =>
              UNCHANGED <<disk, mem, procVars>>
         /\ (pc[r] = "return" /\ pc'[r] = "respond" /\ result'[r] = OkResult) =>
              /\ holder = r
              /\ holder' = 0]_vars

\* a store call returned Ok after adding a row to a table that held one
C14_Witness ==
    \E r \in Req :
        /\ pc[r] = "respond"
        /\ result[r] = OkResult
        /\ holder = 0
        /\ rowid[r] = 2
        /\ Len(Db.rows) = 2

(* C15: a request served by the static-file fallback never holds the       *)
(* connection lock and never changes either answers table or any other      *)
(* request; it does not wait for the lock: whoever holds or awaits the lock, *)
(* it is served as soon as a worker thread of the runtime is free.  It is    *)
(* delayed exactly while every worker thread is occupied by handlers that    *)
(* are inside (or at the end of) a store operation.                          *)
C15_StaticNeverLocks ==
    /\ [](\A r \in Req : pc[r] = "static" =>
            /\ holder # r
            /\ rowid[r] = 0
            /\ (ENABLED StaticServe(r)) <=> FreeWorker)
    /\ [][\A r \in Req : pc[r] = "static" /\ pc'[r] = "done" =>
            /\ resp'[r] = ServeDir(req[r])
            /\ holder' = holder
            /\ disk' = disk /\ mem' = mem
            /\ \A s \in Req \ {r} : pc'[s] = pc[s] /\ resp'[s] = resp[s]]_vars

\* a file was served while another request was executing its insert
C15_Witness ==
    \E r, s \in Req :
        /\ pc[r] = "done"
        /\ req[r].path # "/submit"
        /\ resp[r].status = 200
        /\ holder = s
        /\ pc[s] = "step"

\* the statement as made: a pending static request can always be served,
\* whatever the store operations in flight
C15_AsStated ==
    \A r \in Req : pc[r] = "static" =>
        /\ holder # r
        /\ rowid[r] = 0
        /\ ENABLED StaticServe(r)

(* C16: the text of the statement a store operation prepares is the fixed  *)
(* parameterized insert, the same for every request whatever it submitted;  *)
(* the submitted encrypted and captcha values are in the statement only as   *)
(* the values bound to :encrypted and :captcha; executing it appends exactly *)
(* the row of those two values, so two submissions that differ in their      *)
(* values have the same statement text and differ in the row appended.       *)
C16_ParameterizedInsert ==
    /\ [](\A r \in Req :
            /\ pc[r] \in {"bind", "step"} => stmt[r].sql = insert_query
            /\ pc[r] = "bind" => stmt[r].params = NoPayload
            /\ pc[r] = "step" =>
                 stmt[r].params = [encrypted |-> payload[r].encrypted,
                                   captcha |-> payload[r].captcha]
            /\ \A s \in Req :
                 stmt[r] # NoStatement /\ stmt[s] # NoStatement
                    => stmt[r].sql = stmt[s].sql)
    /\ [][\A r \in Req : pc[r] = "step" /\ pc'[r] = "return" /\ rowid'[r] # 0 =>
            Db' = [Db EXCEPT !.rows =
                      Append(@, [encrypted |-> payload[r].encrypted,
                                 captcha |-> payload[r].captcha])]]_vars

\* two submissions with different values: one has stored its row, the other
\* is about to execute the same statement text with its own values bound
C16_Witness ==
    \E r, s \in Req :
        /\ pc[r] = "done" /\ resp[r] = Saved /\ rowid[r] # 0
        /\ pc[s] = "step"
        /\ payload[r] # payload[s]
        /\ stmt[r].sql = stmt[s].sql
        /\ stmt[r].params # stmt[s].params
        /\ Db.rows[rowid[r]] = InsertRow(stmt[r].params)

\* the order of the phases of one process run
PhaseRank(p) ==
    CASE p = "open" -> 1 [] p = "lock" -> 2 [] p = "schema" -> 3
      [] p = "bind" -> 4 [] p = "serving" -> 5 [] OTHER -> 0

(* C17: in every process run the schema is initialized in one step, taken   *)
(* by main() while it holds the connection lock, before the address is      *)
(* bound and before any request is received; a run never goes back to an    *)
(* earlier phase, so it is initialized once.  That step creates the answers  *)
(* table if absent and leaves an existing one with its rows.  From then on   *)
(* the table exists: every store operation executes against a database that  *)
(* has it, and no later step of the run adds or removes the table.           *)
C17_SchemaBeforeServing ==
    /\ [](/\ phase \in {"bind", "serving"} => Db.hasTable
          /\ phase = "schema" <=> holder = Main
          /\ \A r \in Req : Live(r) => phase = "serving"
          /\ \A r \in Req : InStore(r) => Db.hasTable)
    /\ [][/\ (phase' # "stopped" /\ phase' # phase) =>
                PhaseRank(phase') = PhaseRank(phase) + 1
          /\ (phase = "schema" /\ phase' = "bind") =>
                /\ holder = Main /\ holder' = 0
                /\ Db' = CreateTableIfNotExists(Db)
                /\ Db.hasTable => Db' = Db
                /\ \A r \in Req : ~Live(r)
          /\ (phase # "stopped" /\ phase' # "stopped"
                /\ Db'.hasTable # Db.hasTable) =>
                phase = "schema" /\ phase' = "bind"
          /\ disk.hasTable => disk'.hasTable]_vars

\* a store operation executes against the table that this run's schema
\* initialization created in a new in-memory database
C17_Witness ==
    \E r \in Req :
        /\ phase = "serving"
        /\ UsesMemory
        /\ pc[r] = "prepare"
        /\ holder = r
        /\ Db.hasTable

(* C18: the connection lock is held by a request exactly from its lock()   *)
(* to the return of store_form, and by main() exactly during schema          *)
(* initialization, by nobody otherwise.  The step in which store_form        *)
(* returns, with Ok or with the error of prepare, bind or execution,         *)
(* releases it to nobody.  The holder never waits: its next step is always   *)
(* enabled.  lock() has no failing outcome: a request at lock() can acquire  *)
(* whenever the lock is free and leaves lock() only as the holder.           *)
C18_LockReleased ==
    /\ [](/\ holder \in {0, Main} \cup Req
          /\ holder = Main <=> phase = "schema"
          /\ \A r \in Req :
               /\ holder = r <=> Executing(r)
               /\ pc[r] \in {"respond", "done"} => holder # r
               /\ holder = r => /\ InPoll(r)
                                /\ ENABLED (Prepare(r) \/ Bind(r) \/ Step(r) \/ Return(r))
               /\ (pc[r] = "lock" /\ holder = 0) => ENABLED Acquire(r))
    /\ [][\A r \in Req :
            /\ (pc[r] = "return" /\ pc'[r] = "respond") =>
                 /\ holder = r /\ holder' = 0
                 /\ result'[r] # NoResult
                 /\ fault[r] \in {"none", "prepare", "bind", "step"}
            /\ (pc[r] = "lock" /\ pc'[r] \notin {"lock", "gone"}) =>
                 /\ holder = 0 /\ holder' = r
                 /\ pc'[r] = "prepare"
                 /\ result'[r] = NoResult]_vars

\* store_form has returned the error of prepare for one request and the
\* error of execution for another; the lock is free
C18_Witness ==
    \E r, s \in Req :
        /\ pc[r] = "done" /\ fault[r] = "prepare" /\ result[r].kind = "err"
        /\ pc[s] = "respond" /\ fault[s] = "step" /\ result[s].kind = "err"
        /\ holder = 0

\* the requests of this run whose store_form call has returned Ok
Succeeded == {r \in Req : InThisRun(r) /\ result[r] = OkResult}

\* the requests of this run whose insert statement has run
HasInserted == {r \in Req : InThisRun(r) /\ rowid[r] # 0}

\* the requests of this run answered 201
Sent201 == {r \in Req : InThisRun(r) /\ resp[r].status = StatusCreated}

\* every row added since startup is the submitted row of one request whose
\* insert has run, a different request for each row
RowsComeFromInserts ==
    /\ \A i \in 1..Len(NewRows) :
         \E r \in HasInserted :
            /\ rowid[r] = baseLen + i
            /\ NewRows[i] = SentRow(req[r])
    /\ \A r \in HasInserted : rowid[r] \in (baseLen + 1)..Len(Db.rows)
    /\ \A r, s \in HasInserted : rowid[r] = rowid[s] => r = s

(* C19: while the process serves, the number of rows appended since        *)
(* startup equals the number of store operations whose insert has run;      *)
(* each of them has returned Ok, except the one that holds the lock and has  *)
(* not returned yet, so the rows appended are the successful store calls     *)
(* plus at most one.  A 201 is sent only for a call that returned Ok, after  *)
(* its row is in the table: responses 201 <= calls returned Ok <= rows       *)
(* appended, and every row appended is the row of one such insert.           *)
C19_RowsMatchStores ==
    phase = "serving" =>
        /\ Len(NewRows) = Cardinality(HasInserted)
        /\ Sent201 \subseteq Succeeded
        /\ Succeeded \subseteq HasInserted
        /\ \A r \in HasInserted \ Succeeded : pc[r] = "return" /\ holder = r
        /\ Cardinality(Sent201) <= Cardinality(Succeeded)
        /\ Cardinality(Succeeded) <= Len(NewRows)
        /\ Len(NewRows) <= Cardinality(Succeeded) + 1
        /\ RowsComeFromInserts
        /\ \A r \in Sent201 : Db.rows[rowid[r]] = SentRow(req[r])

\* one submission has its 201; the insert of another has run and its
\* store_form has not returned: two rows, one successful store call
C19_Witness ==
    \E r, s \in Req :
        /\ phase = "serving"
        /\ r \in Sent201
        /\ pc[s] = "return" /\ rowid[s] # 0 /\ result[s] = NoResult
        /\ Len(NewRows) = 2
        /\ Cardinality(Succeeded) = 1

\* the statement as made: in every state the rows appended are as many as
\* the store calls that have returned Ok
C19_AsStated ==
    phase = "serving" =>
        /\ Len(NewRows) = Cardinality(Succeeded)
        /\ Cardinality(Sent201) <= Len(NewRows)
        /\ \A i \in 1..Len(NewRows) :
             \E r \in Succeeded : rowid[r] = baseLen + i

====
